---- MODULE Spec2Model ----
(***************************************************************************)
(* Model of geneticAlgo.py: the genetic optimiser geneticAlgoSolve with    *)
(* its operators crossover and mutation, the batch scheduler solver and    *)
(* the Excel workbook it loads from and saves to.                          *)
(*                                                                         *)
(* Genes are reals in the source; here they are integers of a small grid.  *)
(* A fitness value is a rational number with denominator FitDenom, stored  *)
(* as its numerator, so that the integer cast numpy applies when a float   *)
(* is stored into an integer array is visible.                             *)
(* Python indices are 0-based, sequences here are 1-based: row r of the    *)
(* source is element r + 1.                                                *)
(***************************************************************************)
EXTENDS Integers, Sequences, FiniteSets, TLC

VARIABLES
    disk,                 \* the file output_file on disk
    wb,                   \* the workbook open in Excel (xl.Book)
    args,                 \* arguments of the running call of geneticAlgoSolve
    num_cpu,              \* mp.cpu_count() of the host
    population,           \* local: num_solutions rows of num_params genes
    population_ndim,      \* population.ndim: 2, or 1 when the array is flat
    fitness,              \* local: fitness vector
    fitness_dtype,        \* dtype of the fitness array: "int", "float", "object"
    record,               \* local: rows of the generation record
    recorded_generations, \* local
    no_data,              \* local
    generation,           \* loop variable of geneticAlgoSolve
    sinds,                \* local: the index array argsort returned (1-based)
    offspring_crossover,  \* the array crossover returned; mutation writes in it
    offspring_mutation,   \* result of mutation: the same array
    crossed,              \* history: the rows as crossover returned them
    comp_solutions,       \* solver local
    i1, i2,               \* solver locals (0-based slice bounds)
    inflight,             \* rows (1-based) a worker of the pool is evaluating
    results,              \* row -> value returned by its worker
    pc,                   \* position of the caller / geneticAlgoSolve
    exc,                  \* how the call ended: "none" or the error
    runs,                 \* history: number of calls of geneticAlgoSolve
    calls,                \* history: fitnessFun invocations of this call
    evals,                \* history: per row, invocations in this solver call
    batches,              \* history: the slices <<i1, i2>> of this solver call
    bootstrapped,         \* history: this call took the except branch
    disk0,                \* history: the file when this call started
    record0,              \* history: the record rows the call loaded
    committed,            \* history: the file after the last completed generation
    last_run              \* history: locals at the last completed generation

vars == <<disk, wb, args, num_cpu, population, fitness, fitness_dtype, record,
          recorded_generations, no_data, generation, offspring_crossover,
          offspring_mutation, comp_solutions, i1, i2, inflight, results, pc,
          exc, runs, calls, evals, bootstrapped, disk0, record0, committed,
          last_run, sinds, batches, population_ndim, crossed>>

----------------------------------------------------------------------------
(* Bounds of the model. *)

MaxGenerations == 3
MaxRuns == 2
MaxCpu == 2
FitDenom == 4
OpsMaxParams == 3
MaxWideParams == 514

(* The objective of geneticAlgoTest.py, sum((x - target)**2), divided by   *)
(* FitDenom so that its values are not all whole numbers. Target is the    *)
(* target of every gene: 5000 in the test, 3 on the gene grid used here.   *)
Target == 3

----------------------------------------------------------------------------
(* Helpers. *)

Min(a, b) == IF a <= b THEN a ELSE b
Max(a, b) == IF a >= b THEN a ELSE b

RECURSIVE SumSeq(_)
SumSeq(s) == IF s = <<>> THEN 0 ELSE Head(s) + SumSeq(Tail(s))

IsSorted(f) == \A i \in 1..(Len(f) - 1) : f[i] <= f[i + 1]

Perms(n) == {s \in [1..n -> 1..n] : \A a, b \in 1..n : s[a] = s[b] => a = b}

----------------------------------------------------------------------------
(* The caller's objective function and numpy's store into a typed array.   *)

(* testFitnessFunc: sum((x - target)**2); the value is this numerator over *)
(* FitDenom.                                                               *)
fitnessFun(x) == SumSeq([j \in 1..Len(x) |-> (x[j] - Target) * (x[j] - Target)])

(* The value an array of the given dtype holds after a float is assigned   *)
(* to one of its elements: an integer array truncates toward zero.         *)
astype(dtype, v) ==
    IF dtype = "int"
    THEN IF v >= 0 THEN (v \div FitDenom) * FitDenom
                   ELSE 0 - (((0 - v) \div FitDenom) * FitDenom)
    ELSE v

(* np.random.uniform(low, high): any value between the two bounds.         *)
uniform(range) == Min(range[1], range[2])..Max(range[1], range[2])

(* Fault variant of argsort: the rows are left in the order they have.     *)
argsort_unsorted(f) == {[k \in 1..Len(f) |-> k]}

(* fitness.argsort(): numpy's default sort is not stable, every order that *)
(* sorts the vector can be returned.                                       *)
argsort(f) == {s \in Perms(Len(f)) : \A i \in 1..(Len(f) - 1) : f[s[i]] <= f[s[i + 1]]}

----------------------------------------------------------------------------
(* Operators: crossover and mutation.                                      *)

(* np.uint8(num_params/2): the float quotient is truncated and cast to an   *)
(* unsigned 8-bit integer; a value of 256 or more does not fit and the     *)
(* cast keeps its low 8 bits.                                              *)
crossover_point(num_params) == (num_params \div 2) % 256

(* Fault variant of crossover: the second half is taken from the first     *)
(* parent too.                                                             *)
crossover_one_parent(parents, num_solutions, num_parents, num_params) ==
    [k \in 1..(num_solutions - num_parents) |-> parents[((k - 1) % num_parents) + 1]]

crossover(parents, num_solutions, num_parents, num_params) ==
    LET num_offspring == num_solutions - num_parents
        cp == crossover_point(num_params)
    IN  [k \in 1..num_offspring |->
            LET parent1_ind == (k - 1) % num_parents
                parent2_ind == ((k - 1) + 1) % num_parents
            IN  SubSeq(parents[parent1_ind + 1], 1, Min(cp, num_params))
                    \o SubSeq(parents[parent2_ind + 1], cp + 1, num_params)]

(* Fault variant of mutation: the drawn value is stored into the whole row. *)
mutation_whole_row(offspring, num_params, param_ranges, cols, genes) ==
    [row \in 1..Len(offspring) |-> [j \in 1..Len(offspring[row]) |-> genes[row]]]

(* cols[row] is the value np.random.randint(0, num_params) returned for    *)
(* the row (0-based), genes[row] the value np.random.uniform returned.     *)
mutation(offspring, num_params, param_ranges, cols, genes) ==
    [row \in 1..Len(offspring) |->
        [offspring[row] EXCEPT ![cols[row] + 1] = genes[row]]]

(* The draws mutation can make for these offspring. *)
ColDraws(n, num_params) == [1..n -> 0..(num_params - 1)]

GeneValues(param_ranges) ==
    UNION {uniform(param_ranges[c]) : c \in 1..Len(param_ranges)}

GeneDraws(n, param_ranges, cols) ==
    {g \in [1..n -> GeneValues(param_ranges)] :
        \A r \in 1..n : g[r] \in uniform(param_ranges[cols[r] + 1])}

----------------------------------------------------------------------------
(* The workbook: the sheets Population, Fitness and Record.                *)

(* A workbook xl.Book() just created and formatted: record count 0.        *)
NewBook == [kind |-> "book", population |-> <<>>, fitness |-> <<>>,
            recorded_generations |-> 0, record |-> <<>>]

(* No file of that name in the working directory. *)
NoFile == [kind |-> "absent", population |-> <<>>, fitness |-> <<>>,
           recorded_generations |-> 0, record |-> <<>>]

(* sheet.range((1, 1)).value = cells, for one row of cells: the cells      *)
(* written replace the ones they cover, the others stay.                   *)
WriteCells(old, new) ==
    [c \in 1..Max(Len(old), Len(new)) |-> IF c <= Len(new) THEN new[c] ELSE old[c]]

(* The same for a block of rows. *)
WriteBlock(old, new) ==
    [r \in 1..Max(Len(old), Len(new)) |->
        IF r > Len(new) THEN old[r]
        ELSE IF r > Len(old) THEN new[r]
        ELSE WriteCells(old[r], new[r])]

(* The value xlwings returns for an empty cell: Python's None, here a      *)
(* number that is no gene and no fitness.                                  *)
None == -1

(* sheet.range((1, 1), (1, n)).value for one row of cells: the cells the    *)
(* sheet does not hold are None.                                           *)
ReadCells(cells, n) ==
    [c \in 1..n |-> IF c <= Len(cells) THEN cells[c] ELSE None]

(* The cells of the range (1, 1) to (nrows, ncols) of a sheet, row by row. *)
Cells(sheet, nrows, ncols) ==
    [r \in 1..nrows |->
        ReadCells(IF r <= Len(sheet) THEN sheet[r] ELSE <<>>, ncols)]

(* sheet.range((1, 1), (nrows, ncols)).value: xlwings returns the cells of *)
(* a range of one column, or of one row, as one flat list, and nested row  *)
(* by row only when the range has several rows and several columns.        *)
ReadBlock(sheet, nrows, ncols) ==
    IF ncols = 1 THEN [r \in 1..nrows |-> Cells(sheet, nrows, ncols)[r][1]]
    ELSE IF nrows = 1 THEN Cells(sheet, nrows, ncols)[1]
    ELSE Cells(sheet, nrows, ncols)

(* np.array(value).ndim for the value of a range of several cells.         *)
ndim_of(nrows, ncols) == IF nrows = 1 \/ ncols = 1 THEN 1 ELSE 2

(* np.atleast_2d, which np.vstack applies to its operands: the flat value  *)
(* of a range of one row is one row.                                       *)
atleast_2d(value, nrows, ncols) ==
    IF nrows = 1 /\ ncols > 1 THEN <<value>> ELSE value

(* A cell of np.empty that nothing has assigned: it holds what the memory  *)
(* held. No line reads such a cell; here a number that is no gene, no      *)
(* fitness and no count.                                                   *)
Uninit == -3

(* np.array(cells): an array of floats, or of objects when a cell is None. *)
dtype_of(cells) ==
    IF \E c \in 1..Len(cells) : cells[c] = None THEN "object" ELSE "float"

----------------------------------------------------------------------------
(* Arguments the caller passes.                                            *)

Ranges == <<<<0, 1>>, <<2, 2>>>>
RangesLong == <<<<0, 1>>, <<2, 2>>, <<0, 1>>>>
RangesShort == <<<<0, 1>>>>
RangesInverted == <<<<1, 0>>, <<2, 2>>>>

Shapes == {<<3, 1>>, <<3, 2>>, <<2, 1>>}

(* Calls with as many parents as solutions, and with a range whose bounds  *)
(* are inverted.                                                           *)
ConfigsOdd ==
    {[num_params |-> 2, num_solutions |-> 2, num_parents |-> np,
      param_ranges |-> (IF np = 2 THEN Ranges ELSE RangesInverted),
      num_generations |-> g] :
        np \in {1, 2}, g \in {0, 1}}

(* Calls with a list of ranges of the wrong length. *)
ConfigsWrongLength ==
    {[num_params |-> 2, num_solutions |-> sh[1], num_parents |-> sh[2],
      param_ranges |-> pr, num_generations |-> g] :
        sh \in Shapes, pr \in {RangesLong, RangesShort}, g \in {0, 1}}

Configs ==
    {[num_params |-> 2, num_solutions |-> sh[1], num_parents |-> sh[2],
      param_ranges |-> Ranges, num_generations |-> g] :
        sh \in Shapes, g \in 0..MaxGenerations}
    \cup ConfigsWrongLength
    \cup ConfigsOdd

NoArgs == [num_params |-> 0, num_solutions |-> 0, num_parents |-> 0,
           param_ranges |-> <<>>, num_generations |-> 0]

(* Lines 167-172: each column drawn from its own range. *)
RandomRows(cfg) ==
    {x \in [1..cfg.num_params -> GeneValues(cfg.param_ranges)] :
        \A c \in 1..cfg.num_params : x[c] \in uniform(cfg.param_ranges[c])}

RandomPopulations(cfg) == [1..cfg.num_solutions -> RandomRows(cfg)]

NoRun == [valid |-> FALSE, args |-> NoArgs, population |-> <<>>,
          fitness |-> <<>>, record |-> <<>>]

----------------------------------------------------------------------------
(* Initial state: geneticAlgoSolve has not been called.                    *)

Init ==
    /\ disk = NoFile
    /\ wb = NewBook
    /\ args = NoArgs
    /\ num_cpu \in 1..MaxCpu
    /\ population = <<>>
    /\ population_ndim = 2
    /\ fitness = <<>>
    /\ fitness_dtype = "float"
    /\ record = <<>>
    /\ recorded_generations = 0
    /\ no_data = FALSE
    /\ generation = 0
    /\ sinds = <<>>
    /\ batches = <<>>
    /\ offspring_crossover = <<>>
    /\ crossed = <<>>
    /\ offspring_mutation = <<>>
    /\ comp_solutions = 0
    /\ i1 = 0
    /\ i2 = 0
    /\ inflight = {}
    /\ results = <<>>
    /\ pc = "idle"
    /\ exc = "none"
    /\ runs = 0
    /\ calls = 0
    /\ evals = <<>>
    /\ bootstrapped = FALSE
    /\ disk0 = disk
    /\ record0 = <<>>
    /\ committed = disk
    /\ last_run = NoRun

solverLocals == <<comp_solutions, i1, i2, inflight, results>>
breedLocals == <<offspring_crossover, offspring_mutation, crossed>>
history == <<runs, calls, evals, bootstrapped, disk0, record0, committed, last_run>>

----------------------------------------------------------------------------
(* geneticAlgoSolve, lines 106-185: load the workbook or create it.        *)

(* The caller calls again after a call has ended. The number of calls and  *)
(* the number of generations a workbook records are capped.                *)
Startable(cfg) ==
    /\ pc \in {"idle", "done", "returned", "raised"}
    /\ runs < MaxRuns
    /\ disk.recorded_generations + cfg.num_generations <= MaxGenerations

(* The function returns or an exception leaves it: its locals are gone.   *)
Left ==
    /\ population' = <<>>
    /\ population_ndim' = 2
    /\ fitness' = <<>>
    /\ fitness_dtype' = "float"
    /\ record' = <<>>
    /\ recorded_generations' = 0
    /\ no_data' = FALSE
    /\ offspring_crossover' = <<>>
    /\ crossed' = <<>>
    /\ offspring_mutation' = <<>>
    /\ comp_solutions' = 0
    /\ i1' = 0
    /\ i2' = 0
    /\ inflight' = {}
    /\ results' = <<>>
    /\ sinds' = <<>>

(* xl.Book(output_file) and the three sheets can be read. *)
Loadable(d) == d.kind = "book"

Entered(cfg, e) ==
    /\ args' = cfg
    /\ generation' = 0
    /\ exc' = e
    /\ runs' = runs + 1
    /\ calls' = 0
    /\ evals' = [r \in 1..cfg.num_solutions |-> 0]
    /\ disk0' = disk
    /\ committed' = disk
    /\ UNCHANGED <<disk, num_cpu, last_run, batches>>

(* Lines 106-131: the try branch. The ranges read are those of the         *)
(* arguments, whatever the sheets hold: rows beyond them are left out,     *)
(* cells the sheets do not hold are read as None. The calls made here have *)
(* no more parents than the sheets hold rows, so every None is in a row    *)
(* that the first cycle overwrites before it is read. With num_params = 1  *)
(* the population range is one column: its value is a flat list and the    *)
(* array made of it has one dimension. The record of one generation is a   *)
(* flat row until np.vstack (line 232) stacks it; it is kept as that row.  *)
Resume(cfg) ==
    /\ Startable(cfg)
    /\ Loadable(disk)
    /\ wb' = disk
    /\ population' = ReadBlock(disk.population, cfg.num_solutions, cfg.num_params)
    /\ population_ndim' = ndim_of(cfg.num_solutions, cfg.num_params)
    /\ fitness' = ReadCells(disk.fitness, cfg.num_solutions)
    /\ fitness_dtype' = dtype_of(fitness')
    /\ recorded_generations' = disk.recorded_generations
    /\ record' = atleast_2d(ReadBlock(disk.record, disk.recorded_generations,
                                      cfg.num_params + 2),
                            disk.recorded_generations, cfg.num_params + 2)
    /\ record0' = record'
    /\ no_data' = FALSE
    /\ bootstrapped' = FALSE
    /\ pc' = "loop"
    /\ UNCHANGED <<solverLocals, breedLocals, sinds>>
    /\ Entered(cfg, "none")

(* Lines 133-182: the except branch with ranges of the right length. The   *)
(* record is one row of cells not yet assigned (line 178), which the first *)
(* cycle replaces (line 224): the call has loaded no record row.           *)
Bootstrap(cfg) ==
    /\ Startable(cfg)
    /\ ~Loadable(disk)
    /\ Len(cfg.param_ranges) = cfg.num_params
    /\ wb' = NewBook
    /\ population' \in RandomPopulations(cfg)
    /\ population_ndim' = 2
    /\ fitness' = [k \in 1..cfg.num_solutions |-> 0]
    /\ fitness_dtype' = "int"
    /\ recorded_generations' = 0
    /\ record' = <<[c \in 1..(cfg.num_params + 2) |-> Uninit]>>
    /\ record0' = <<>>
    /\ no_data' = TRUE
    /\ bootstrapped' = TRUE
    /\ pc' = "loop"
    /\ UNCHANGED <<solverLocals, breedLocals, sinds>>
    /\ Entered(cfg, "none")

(* Lines 133-161: the except branch, ranges of the wrong length: the       *)
(* message is printed and the function returns None as a call that         *)
(* completed does; no exception is raised.                                 *)
RejectRanges(cfg) ==
    /\ Startable(cfg)
    /\ ~Loadable(disk)
    /\ Len(cfg.param_ranges) # cfg.num_params
    /\ wb' = NewBook
    /\ Left
    /\ record0' = <<>>
    /\ bootstrapped' = TRUE
    /\ pc' = "returned"
    /\ Entered(cfg, "none")

----------------------------------------------------------------------------
(* geneticAlgoSolve, lines 187-203: parents, crossover, mutation, splice.  *)
(* mutation assigns into the array it is given and returns it (lines 71    *)
(* and 73): after line 200 offspring_crossover and offspring_mutation are  *)
(* the same array, with the mutated genes.                                 *)

(* Fault variant of Spliced: the offspring are stored from row 0 on.       *)
Spliced_from_top(pop, num_parents, offspring) ==
    offspring \o SubSeq(pop, Len(offspring) + 1, Len(pop))

(* Line 203: population[num_parents:, :] = offspring_mutation *)
Spliced(pop, num_parents, offspring) == SubSeq(pop, 1, num_parents) \o offspring

Breed ==
    /\ pc = "loop"
    /\ generation < args.num_generations
    /\ IF population_ndim # 2
       THEN \* population[0:num_parents, :] (line 194) raises IndexError
            /\ pc' = "raised"
            /\ exc' = "IndexError"
            /\ Left
            /\ UNCHANGED evals
       ELSE
       LET parents == SubSeq(population, 1, args.num_parents)
           oc == crossover(parents, args.num_solutions, args.num_parents,
                           args.num_params)
       IN  \E cols \in ColDraws(Len(oc), args.num_params) :
             IF \E r \in 1..Len(oc) : cols[r] + 1 > Len(args.param_ranges)
             THEN \* param_ranges[col] raises IndexError inside mutation
                  /\ pc' = "raised"
                  /\ exc' = "IndexError"
                  /\ Left
                  /\ UNCHANGED evals
             ELSE \E genes \in GeneDraws(Len(oc), args.param_ranges, cols) :
                  /\ crossed' = oc
                  /\ offspring_mutation' =
                         mutation(oc, args.num_params, args.param_ranges, cols, genes)
                  /\ offspring_crossover' = offspring_mutation'
                  /\ population' =
                         Spliced(population, args.num_parents, offspring_mutation')
                  /\ comp_solutions' = 0
                  /\ evals' = [r \in 1..args.num_solutions |-> 0]
                  /\ pc' = "solve"
                  /\ exc' = exc
                  /\ UNCHANGED <<fitness, fitness_dtype, population_ndim, record,
                                 recorded_generations, no_data, i1, i2,
                                 inflight, results, sinds>>
    /\ UNCHANGED <<disk, wb, args, num_cpu, generation, runs, calls,
                   bootstrapped, disk0, record0, committed, last_run, batches>>

(* The loop of line 187 is exhausted: the function returns. *)
LoopExit ==
    /\ pc = "loop"
    /\ generation >= args.num_generations
    /\ pc' = "done"
    /\ Left
    /\ UNCHANGED <<disk, wb, args, num_cpu, generation, exc, history, batches>>

----------------------------------------------------------------------------
(* solver, lines 77-97.                                                    *)

(* Fault variant of req_solutions: every row is evaluated in every call.    *)
req_solutions_all == args.num_solutions

req_solutions ==
    IF no_data THEN args.num_solutions
               ELSE args.num_solutions - args.num_parents

(* Fault variant of num_processes: one worker for every row that remains.  *)
num_processes_all(remaining, cpus) == remaining

(* Line 88: min(req_solutions - comp_solutions, num_cpu) *)
num_processes(remaining, cpus) == Min(remaining, cpus)

(* Lines 87-92: a pool of num_processes workers is given rows i1..i2-1.    *)
Dispatch ==
    /\ pc = "solve"
    /\ comp_solutions < req_solutions
    /\ LET np == num_processes(req_solutions - comp_solutions, num_cpu)
       IN  /\ i1' = args.num_solutions - comp_solutions - np
           /\ i2' = i1' + np
    /\ inflight' = (i1' + 1)..i2'
    /\ results' = <<>>
    /\ batches' = Append(batches, <<i1', i2'>>)
    /\ pc' = "batch"
    /\ UNCHANGED <<disk, wb, args, num_cpu, population, fitness,
                   fitness_dtype, population_ndim,
                   record, recorded_generations, no_data, generation,
                   comp_solutions, exc>>
    /\ UNCHANGED <<breedLocals, history, sinds>>

(* A worker of the pool returns fitnessFun of its row. *)
Worker(r) ==
    /\ pc = "batch"
    /\ r \in inflight
    /\ inflight' = inflight \ {r}
    /\ results' = [k \in DOMAIN results \cup {r} |->
                      IF k = r THEN fitnessFun(population[r]) ELSE results[k]]
    /\ calls' = calls + 1
    /\ evals' = [evals EXCEPT ![r] = @ + 1]
    /\ UNCHANGED <<disk, wb, args, num_cpu, population, fitness,
                   fitness_dtype, population_ndim,
                   record, recorded_generations, no_data, generation,
                   comp_solutions, i1, i2, pc, exc>>
    /\ UNCHANGED <<breedLocals, runs, bootstrapped, disk0, record0, committed,
                   last_run, sinds, batches>>

(* What the pool keeps for a row whose fitnessFun raised: the exception,   *)
(* here a number that is no fitness.                                       *)
Raised == -2

(* fitnessFun is invoked on the row and raises in its worker: the pool     *)
(* keeps the exception; the other workers of the batch go on.              *)
WorkerRaises(r) ==
    /\ pc = "batch"
    /\ r \in inflight
    /\ inflight' = inflight \ {r}
    /\ results' = [k \in DOMAIN results \cup {r} |->
                      IF k = r THEN Raised ELSE results[k]]
    /\ calls' = calls + 1
    /\ evals' = [evals EXCEPT ![r] = @ + 1]
    /\ UNCHANGED <<disk, wb, args, num_cpu, population, fitness,
                   fitness_dtype, population_ndim,
                   record, recorded_generations, no_data, generation,
                   comp_solutions, i1, i2, pc, exc>>
    /\ UNCHANGED <<breedLocals, runs, bootstrapped, disk0, record0, committed,
                   last_run, sinds, batches>>

(* A worker of the batch raised. *)
map_failed == \E k \in DOMAIN results : results[k] = Raised

(* Every worker of the batch is done and one raised: mpPool.map re-raises  *)
(* the exception in the caller; nothing catches it in solver or in         *)
(* geneticAlgoSolve.                                                       *)
MapRaises ==
    /\ pc = "batch"
    /\ inflight = {}
    /\ map_failed
    /\ pc' = "raised"
    /\ exc' = "EvaluationError"
    /\ Left
    /\ batches' = <<>>
    /\ UNCHANGED <<disk, wb, args, num_cpu, generation, runs, calls, evals,
                   bootstrapped, disk0, record0, committed, last_run>>

(* mpPool.map returns the list of results in the order of the rows given.  *)
map_result == [j \in 1..(i2 - i1) |-> results[i1 + j]]

(* fitness[i1:i2] = <list>, then close, join, comp_solutions += ...        *)
Assigned(f, dtype, lo, hi, values) ==
    [k \in 1..Len(f) |->
        IF lo < k /\ k <= hi THEN astype(dtype, values[k - lo]) ELSE f[k]]

(* Fault variant of Collect: the fitness of every batch is written to the   *)
(* Fitness sheet and the workbook saved at once.                           *)
Collect_saving ==
    /\ pc = "batch"
    /\ inflight = {}
    /\ ~map_failed
    /\ fitness' = Assigned(fitness, fitness_dtype, i1, i2, map_result)
    /\ comp_solutions' = comp_solutions + (i2 - i1)
    /\ pc' = "solve"
    /\ wb' = [wb EXCEPT !.fitness = WriteCells(@, fitness')]
    /\ disk' = wb'
    /\ UNCHANGED <<args, num_cpu, population, fitness_dtype, population_ndim,
                   record,
                   recorded_generations, no_data, generation, i1, i2, inflight,
                   results, exc>>
    /\ UNCHANGED <<breedLocals, history, sinds, batches>>

Collect ==
    /\ pc = "batch"
    /\ inflight = {}
    /\ ~map_failed
    /\ fitness' = Assigned(fitness, fitness_dtype, i1, i2, map_result)
    /\ comp_solutions' = comp_solutions + (i2 - i1)
    /\ pc' = "solve"
    /\ UNCHANGED <<disk, wb, args, num_cpu, population, fitness_dtype,
                   population_ndim, record,
                   recorded_generations, no_data, generation, i1, i2, inflight,
                   results, exc>>
    /\ UNCHANGED <<breedLocals, history, sinds, batches>>

(* Fault variant of SolverReturn: the loop of solver does not end when all  *)
(* rows are computed.                                                      *)
SolverReturn_spin ==
    /\ pc = "solve"
    /\ comp_solutions >= req_solutions
    /\ UNCHANGED vars

(* The while loop of line 87 ends: return fitness. The list of the slices  *)
(* of the call ends with the call.                                         *)
SolverReturn ==
    /\ pc = "solve"
    /\ comp_solutions >= req_solutions
    /\ pc' = "rank"
    /\ batches' = <<>>
    /\ UNCHANGED <<disk, wb, args, num_cpu, population, fitness,
                   fitness_dtype, population_ndim,
                   record, recorded_generations, no_data, generation, exc>>
    /\ UNCHANGED <<solverLocals, breedLocals, history, sinds>>

----------------------------------------------------------------------------
(* geneticAlgoSolve, lines 209-235: sort, record, save.                    *)

Reordered(rows, inds) == [k \in 1..Len(rows) |-> rows[inds[k]]]

(* Fault variant of NewRecord: the worst row is recorded, not the best.    *)
NewRecord_worst(count, pop, fit) == <<count>> \o pop[Len(pop)] \o <<fit[Len(fit)]>>

(* new_record: the count, the genes of row 0, its fitness. *)
NewRecord(count, pop, fit) == <<count>> \o pop[1] \o <<fit[1]>>

(* Fault variant of vstack: the record is replaced by its newest row.       *)
vstack_replace(rec, new_record) == <<new_record>>

(* np.vstack((record, new_record)) *)
vstack(rec, new_record) == Append(rec, new_record)

(* Lines 210-226: argsort, reorder, write the Population and Fitness       *)
(* sheets, build the record; the first generation of a run without data    *)
(* saves the workbook under output_file here, before the Record sheet is   *)
(* written.                                                                *)
Rank ==
    /\ pc = "rank"
    /\ sinds' \in argsort(fitness)
    /\ population' = Reordered(population, sinds')
    /\ fitness' = Reordered(fitness, sinds')
    /\ wb' = [wb EXCEPT !.population = WriteBlock(@, population'),
                        !.fitness = WriteCells(@, fitness')]
    /\ IF no_data
       THEN /\ recorded_generations' = 1
            /\ record' = <<NewRecord(1, population', fitness')>>
            /\ no_data' = FALSE
            /\ disk' = wb'
       ELSE /\ recorded_generations' = recorded_generations + 1
            /\ record' = vstack(record, NewRecord(recorded_generations + 1,
                                                  population', fitness'))
            /\ no_data' = no_data
            /\ disk' = disk
    /\ pc' = "persist"
    /\ UNCHANGED <<args, num_cpu, fitness_dtype, population_ndim, generation,
                   exc>>
    /\ UNCHANGED <<solverLocals, breedLocals, history, batches>>

(* Lines 233-235: write the Record sheet, wb.save(), next iteration. The    *)
(* index array sinds is not read again: it is dropped here.                *)
Persist ==
    /\ pc = "persist"
    /\ wb' = [wb EXCEPT !.recorded_generations = recorded_generations,
                        !.record = WriteBlock(@, record)]
    /\ disk' = wb'
    /\ generation' = generation + 1
    /\ sinds' = <<>>
    /\ pc' = "loop"
    /\ committed' = disk'
    /\ last_run' = [valid |-> TRUE, args |-> args, population |-> population,
                    fitness |-> fitness, record |-> record]
    /\ UNCHANGED <<args, num_cpu, population, fitness, fitness_dtype,
                   population_ndim, record,
                   recorded_generations, no_data, exc>>
    /\ UNCHANGED <<solverLocals, breedLocals, runs, calls, evals, bootstrapped,
                   disk0, record0, batches>>

----------------------------------------------------------------------------
(* The program: calls of geneticAlgoSolve by a caller, one after another.  *)

Next ==
    \/ \E cfg \in Configs : Resume(cfg)
    \/ \E cfg \in Configs : Bootstrap(cfg)
    \/ \E cfg \in Configs : RejectRanges(cfg)
    \/ Breed
    \/ LoopExit
    \/ Dispatch
    \/ \E r \in inflight : Worker(r)
    \/ \E r \in inflight : WorkerRaises(r)
    \/ MapRaises
    \/ Collect
    \/ SolverReturn
    \/ Rank
    \/ Persist

Spec == Init /\ [][Next]_vars

(* The steps of a running call. The interpreter executes them one after    *)
(* the other and the workers of a pool run: a call that can take a step    *)
(* takes one.                                                              *)
Step ==
    \/ Breed
    \/ LoopExit
    \/ Dispatch
    \/ \E r \in inflight : Worker(r)
    \/ MapRaises
    \/ Collect
    \/ SolverReturn
    \/ Rank
    \/ Persist

----------------------------------------------------------------------------
(* One call of geneticAlgoSolve in a new process: output_file is absent or *)
(* is the workbook an earlier execution left.                              *)

(* The workbook a run without data of one generation saves when its three  *)
(* rows end as below (fitness computed into the integer array).            *)
Checkpoint ==
    LET pop == <<<<1, 2>>, <<0, 2>>, <<0, 2>>>>
        fit == [k \in 1..3 |-> astype("int", fitnessFun(pop[k]))]
    IN  [kind |-> "book", population |-> pop, fitness |-> fit,
         recorded_generations |-> 1, record |-> <<NewRecord(1, pop, fit)>>]

InitLive ==
    /\ disk \in {NoFile, Checkpoint}
    /\ wb = NewBook
    /\ args = NoArgs
    /\ num_cpu \in 1..MaxCpu
    /\ population = <<>>
    /\ population_ndim = 2
    /\ fitness = <<>>
    /\ fitness_dtype = "float"
    /\ record = <<>>
    /\ recorded_generations = 0
    /\ no_data = FALSE
    /\ generation = 0
    /\ sinds = <<>>
    /\ batches = <<>>
    /\ offspring_crossover = <<>>
    /\ crossed = <<>>
    /\ offspring_mutation = <<>>
    /\ comp_solutions = 0
    /\ i1 = 0
    /\ i2 = 0
    /\ inflight = {}
    /\ results = <<>>
    /\ pc = "idle"
    /\ exc = "none"
    /\ runs = 0
    /\ calls = 0
    /\ evals = <<>>
    /\ bootstrapped = FALSE
    /\ disk0 = disk
    /\ record0 = <<>>
    /\ committed = disk
    /\ last_run = NoRun

NextLive ==
    \/ \E cfg \in Configs : runs = 0 /\ Resume(cfg)
    \/ \E cfg \in Configs : runs = 0 /\ Bootstrap(cfg)
    \/ \E cfg \in Configs : runs = 0 /\ RejectRanges(cfg)
    \/ \E r \in inflight : WorkerRaises(r)
    \/ Step

SpecLive == InitLive /\ [][NextLive]_vars /\ WF_vars(Step)

----------------------------------------------------------------------------
(* Calls with one parameter, one after another on the same output_file:    *)
(* the Population sheet is one column.                                     *)

RangesOne == <<<<0, 1>>>>

ConfigsOneParam ==
    {[num_params |-> 1, num_solutions |-> sh[1], num_parents |-> sh[2],
      param_ranges |-> RangesOne, num_generations |-> g] :
        sh \in Shapes, g \in 0..MaxGenerations}

NextColumn ==
    \/ \E cfg \in ConfigsOneParam : Resume(cfg)
    \/ \E cfg \in ConfigsOneParam : Bootstrap(cfg)
    \/ \E r \in inflight : WorkerRaises(r)
    \/ Step

SpecColumn == Init /\ [][NextColumn]_vars

----------------------------------------------------------------------------
(* The operators alone: crossover applied to any parents of a small grid,  *)
(* then mutation to its result.                                            *)

OpsGenes == {0, 1}

OpsParents == {1, 2, 3}

OpsOffspring == {1, 2}

OpsRange(j) ==
    CASE j % 3 = 1 -> <<0, 1>>
      [] j % 3 = 2 -> <<1, 1>>
      [] OTHER -> <<1, 2>>

OpsConfigs ==
    {[num_params |-> p, num_solutions |-> np + no, num_parents |-> np,
      param_ranges |-> [j \in 1..p |-> OpsRange(j)], num_generations |-> 0] :
        p \in 1..OpsMaxParams, np \in OpsParents, no \in OpsOffspring}

InitOps ==
    /\ disk = NoFile
    /\ wb = NewBook
    /\ args \in OpsConfigs
    /\ num_cpu = 1
    /\ population \in [1..args.num_parents -> [1..args.num_params -> OpsGenes]]
    /\ population_ndim = 2
    /\ fitness = <<>>
    /\ fitness_dtype = "float"
    /\ record = <<>>
    /\ recorded_generations = 0
    /\ no_data = FALSE
    /\ generation = 0
    /\ sinds = <<>>
    /\ batches = <<>>
    /\ offspring_crossover = <<>>
    /\ crossed = <<>>
    /\ offspring_mutation = <<>>
    /\ comp_solutions = 0
    /\ i1 = 0
    /\ i2 = 0
    /\ inflight = {}
    /\ results = <<>>
    /\ pc = "parents"
    /\ exc = "none"
    /\ runs = 0
    /\ calls = 0
    /\ evals = <<>>
    /\ bootstrapped = FALSE
    /\ disk0 = disk
    /\ record0 = <<>>
    /\ committed = disk
    /\ last_run = NoRun

(* offspring_crossover = crossover(parents, ...) *)
OpCrossover ==
    /\ pc = "parents"
    /\ offspring_crossover' =
           crossover(population, args.num_solutions, args.num_parents,
                     args.num_params)
    /\ crossed' = offspring_crossover'
    /\ pc' = "crossed"
    /\ UNCHANGED <<disk, wb, args, num_cpu, population, fitness,
                   fitness_dtype, population_ndim,
                   record, recorded_generations, no_data, generation,
                   offspring_mutation, exc>>
    /\ UNCHANGED <<solverLocals, history, sinds, batches>>

(* offspring_mutation = mutation(offspring_crossover, ...): the genes are  *)
(* written into offspring_crossover, which is returned.                    *)
OpMutation ==
    /\ pc = "crossed"
    /\ \E cols \in ColDraws(Len(offspring_crossover), args.num_params) :
         \E genes \in GeneDraws(Len(offspring_crossover), args.param_ranges, cols) :
            offspring_mutation' =
                mutation(offspring_crossover, args.num_params,
                         args.param_ranges, cols, genes)
    /\ offspring_crossover' = offspring_mutation'
    /\ pc' = "mutated"
    /\ UNCHANGED <<disk, wb, args, num_cpu, population, fitness,
                   fitness_dtype, population_ndim,
                   record, recorded_generations, no_data, generation,
                   crossed, exc>>
    /\ UNCHANGED <<solverLocals, history, sinds, batches>>

NextOps == OpCrossover \/ OpMutation

SpecOps == InitOps /\ [][NextOps]_vars

----------------------------------------------------------------------------
(* crossover alone on long genomes: a parent of zeros and a parent of ones *)
(* of every length up to MaxWideParams, one offspring.                     *)

WideConfigs ==
    {[num_params |-> p, num_solutions |-> 3, num_parents |-> 2,
      param_ranges |-> [j \in 1..p |-> <<0, 1>>], num_generations |-> 0] :
        p \in 1..MaxWideParams}

InitWide ==
    /\ disk = NoFile
    /\ wb = NewBook
    /\ args \in WideConfigs
    /\ num_cpu = 1
    /\ population_ndim = 2
    /\ population = <<[j \in 1..args.num_params |-> 0],
                      [j \in 1..args.num_params |-> 1]>>
    /\ fitness = <<>>
    /\ fitness_dtype = "float"
    /\ record = <<>>
    /\ recorded_generations = 0
    /\ no_data = FALSE
    /\ generation = 0
    /\ sinds = <<>>
    /\ batches = <<>>
    /\ offspring_crossover = <<>>
    /\ crossed = <<>>
    /\ offspring_mutation = <<>>
    /\ comp_solutions = 0
    /\ i1 = 0
    /\ i2 = 0
    /\ inflight = {}
    /\ results = <<>>
    /\ pc = "parents"
    /\ exc = "none"
    /\ runs = 0
    /\ calls = 0
    /\ evals = <<>>
    /\ bootstrapped = FALSE
    /\ disk0 = disk
    /\ record0 = <<>>
    /\ committed = disk
    /\ last_run = NoRun

SpecWide == InitWide /\ [][OpCrossover]_vars

----------------------------------------------------------------------------
(* Properties of geneticAlgoSolve (specification Spec).                    *)

NumSolutions == args.num_solutions
NumParents == args.num_parents
NumParams == args.num_params

(* The rows and fitness values of this call's shape that a workbook holds. *)
StoredPopulation(book) == Cells(book.population, NumSolutions, NumParams)
StoredFitness(book) == ReadCells(book.fitness, NumSolutions)

(* C1: at the end of every completed generation the fitness vector is      *)
(* sorted ascending, its first entry is its minimum, and the population    *)
(* and fitness written to the workbook and saved are in that order.        *)
C1_SortedAfterGeneration ==
    /\ pc = "persist" =>
          /\ IsSorted(fitness)
          /\ \A k \in 1..Len(fitness) : fitness[1] <= fitness[k]
          /\ StoredPopulation(wb) = population
          /\ StoredFitness(wb) = fitness
    /\ (pc = "loop" /\ generation >= 1) =>
          /\ IsSorted(fitness)
          /\ \A k \in 1..Len(fitness) : fitness[1] <= fitness[k]
          /\ StoredPopulation(disk) = population
          /\ StoredFitness(disk) = fitness

(* C1, witness: a generation of a resumed run is complete and its best     *)
(* row is better than the best row the run loaded, so the sort moved an    *)
(* offspring from the trailing rows to row 0.                              *)
C1_Witness ==
    /\ pc = "loop"
    /\ generation >= 1
    /\ ~bootstrapped
    /\ fitness[1] < fitness[Len(fitness)]
    /\ fitness[1] < disk0.fitness[1]

(* C2 as stated: when solver returns, the fitness of every row it had to   *)
(* evaluate equals fitnessFun of the genome of that row.                   *)
C2_FitnessOfSameRow ==
    pc = "rank" =>
        \A k \in (NumSolutions - req_solutions + 1)..NumSolutions :
            fitness[k] = fitnessFun(population[k])

(* C3: solver evaluates every row once in the first cycle of a run that    *)
(* started without data and the trailing rows once, the others not at all, *)
(* in every other cycle; the calls of fitnessFun add up accordingly.       *)
ExpectedEvals ==
    [k \in 1..NumSolutions |->
        IF (bootstrapped /\ generation = 0) \/ k > NumParents THEN 1 ELSE 0]

ExpectedCalls(g) ==
    IF g = 0 THEN 0
    ELSE IF bootstrapped
         THEN NumSolutions + (g - 1) * (NumSolutions - NumParents)
         ELSE g * (NumSolutions - NumParents)

C3_NoRecomputation ==
    /\ pc \in {"solve", "batch"} =>
          \A k \in 1..NumSolutions : evals[k] <= ExpectedEvals[k]
    /\ pc = "rank" =>
          /\ evals = ExpectedEvals
          /\ calls = ExpectedCalls(generation + 1)
    /\ pc \in {"loop", "done"} => calls = ExpectedCalls(generation)

(* C3, witness: a run without data has returned after two generations.     *)
C3_Witness ==
    /\ pc = "done"
    /\ bootstrapped
    /\ generation = 2
    /\ NumParents < NumSolutions
    /\ calls = 2 * NumSolutions - NumParents

(* The entries of the generation record the running call holds: the rows  *)
(* of record, none while no_data is set (record is then the row of line    *)
(* 178 that line 224 replaces with the first entry).                       *)
GenerationRecord == IF no_data THEN <<>> ELSE record

(* C4: after the k-th cycle of a run that started with N record rows the   *)
(* record has N + k rows, the first N are those it started with, each      *)
(* cycle keeps the rows there were and adds one, and the last row is the   *)
(* count, row 0 of the sorted population and its fitness.                  *)
C4_RecordState ==
    pc \in {"loop", "persist"} =>
        LET k == IF pc = "persist" THEN generation + 1 ELSE generation
        IN  /\ Len(GenerationRecord) = Len(record0) + k
            /\ SubSeq(GenerationRecord, 1, Len(record0)) = record0
            /\ k >= 1 =>
                  /\ GenerationRecord = record
                  /\ record[Len(record)] =
                         <<Len(record)>> \o population[1] \o <<fitness[1]>>

C4_RecordStep ==
    (pc = "rank" /\ pc' = "persist") =>
        /\ Len(GenerationRecord') = Len(GenerationRecord) + 1
        /\ SubSeq(GenerationRecord', 1, Len(GenerationRecord)) = GenerationRecord

C4_RecordAppendOnly == [](C4_RecordState) /\ [][C4_RecordStep]_vars

(* C4, witness: the second cycle of a run that loaded one record row is    *)
(* complete.                                                               *)
C4_Witness ==
    /\ pc = "loop"
    /\ ~bootstrapped
    /\ Len(record0) = 1
    /\ generation = 2
    /\ Len(record) = 3

(* C5: a call on the workbook a run of the same shape saved starts from    *)
(* the population, fitness and record that run saved last: the array it    *)
(* loads has the rows and columns of the one saved, with the same genes;   *)
(* the record it saves keeps the N rows loaded and has N + M rows after M  *)
(* generations. It holds of the calls with two parameters (Spec) and fails *)
(* for the calls with one (SpecColumn), whose loaded population is flat.   *)
SameShape ==
    /\ last_run.valid
    /\ last_run.args.num_solutions = NumSolutions
    /\ last_run.args.num_params = NumParams

C5_ResumeCorrect ==
    ~bootstrapped =>
        /\ (pc = "loop" /\ generation = 0 /\ SameShape) =>
              /\ population_ndim = 2
              /\ population = last_run.population
              /\ fitness = last_run.fitness
              /\ record = last_run.record
              /\ record0 = last_run.record
              /\ Len(record0) >= 1
        /\ pc \in {"loop", "done"} =>
              /\ Len(disk.record) = Len(record0) + generation
              /\ disk.recorded_generations = Len(record0) + generation
              /\ SubSeq(disk.record, 1, Len(record0)) = record0

(* C6: when fitnessFun raises, the call ends with that error and the file  *)
(* is the one the last completed generation saved: the file the call found *)
(* if it completed none, else population, fitness and record of the last   *)
(* completed generation.                                                   *)
C6_FailureKeepsCheckpoint ==
    exc = "EvaluationError" =>
        /\ pc = "raised"
        /\ disk = committed
        /\ generation = 0 => disk = disk0
        /\ generation >= 1 =>
              /\ StoredPopulation(disk) = last_run.population
              /\ StoredFitness(disk) = last_run.fitness
              /\ disk.record = last_run.record
              /\ disk.recorded_generations = Len(last_run.record)
              /\ last_run.args = args

(* C6, witness: fitnessFun raised in the second generation of a run that   *)
(* started without data, after another row of that generation had been     *)
(* evaluated.                                                              *)
C6_Witness ==
    /\ exc = "EvaluationError"
    /\ bootstrapped
    /\ generation = 1
    /\ calls >= NumSolutions + 2

(* C7 as stated: with ranges of the wrong length the call ends with a      *)
(* configuration error, runs no cycle, never calls fitnessFun and leaves    *)
(* the file as it was.                                                     *)
C7_RangesRejected ==
    (pc # "idle" /\ Len(args.param_ranges) # args.num_params) =>
        /\ pc = "returned"
        /\ exc = "ConfigurationError"
        /\ generation = 0
        /\ calls = 0
        /\ disk = disk0

(* C8 as stated: a file that is present but is not a workbook of the shape *)
(* of the arguments makes the call fail; it is neither read in part nor    *)
(* replaced by a fresh population.                                         *)
WellShaped(book, cfg) ==
    /\ book.kind = "book"
    /\ Len(book.population) = cfg.num_solutions
    /\ \A r \in 1..Len(book.population) : Len(book.population[r]) = cfg.num_params
    /\ Len(book.fitness) = cfg.num_solutions
    /\ \A r \in 1..Len(book.record) : Len(book.record[r]) = cfg.num_params + 2

C8_MalformedRejected ==
    (pc # "idle" /\ disk0.kind # "absent" /\ ~WellShaped(disk0, args)) =>
        /\ pc = "raised"
        /\ disk = disk0

----------------------------------------------------------------------------
(* Properties of the operators (specification SpecOps).                    *)

(* C9: crossover returns num_solutions - num_parents rows of num_params    *)
(* genes; gene j of row k is that of parent k mod num_parents before the   *)
(* crossover point and that of parent (k + 1) mod num_parents from it on.  *)
C9_CrossoverPairing ==
    /\ pc = "crossed" => offspring_crossover = crossed
    /\ pc \in {"crossed", "mutated"} =>
        /\ Len(crossed) = NumSolutions - NumParents
        /\ \A k \in 0..(NumSolutions - NumParents - 1) :
              /\ Len(crossed[k + 1]) = NumParams
              /\ \A j \in 0..(NumParams - 1) :
                    crossed[k + 1][j + 1] =
                        IF j < crossover_point(NumParams)
                        THEN population[(k % NumParents) + 1][j + 1]
                        ELSE population[((k + 1) % NumParents) + 1][j + 1]

(* C9, witness: two different parents of three genes, two offspring: the   *)
(* second pairs the last parent with the first, and each mixes both.       *)
C9_Witness ==
    /\ pc = "crossed"
    /\ NumParents = 2
    /\ NumParams = 3
    /\ population = <<<<0, 0, 0>>, <<1, 1, 1>>>>
    /\ offspring_crossover = <<<<0, 1, 1>>, <<1, 0, 0>>>>

(* The genes of a row that mutation returned with another value than       *)
(* crossover had given them.                                               *)
Changed(row) ==
    {j \in 1..NumParams : offspring_mutation[row][j] # crossed[row][j]}

(* C10 as stated: after mutation exactly one gene of every row differs     *)
(* from its value before, and the new value is within the gene's range.    *)
C10_ExactlyOneGeneDiffers ==
    pc = "mutated" =>
        \A row \in 1..Len(crossed) :
            /\ Cardinality(Changed(row)) = 1
            /\ \A j \in Changed(row) :
                  offspring_mutation[row][j] \in uniform(args.param_ranges[j])

(* C10, amended: mutation overwrites one gene of every row with a value of *)
(* that gene's range and leaves the other genes of the row as they were,   *)
(* so at most one gene of a row differs from its value before.             *)
C10_OneGeneOverwritten ==
    pc = "mutated" =>
        /\ Len(offspring_mutation) = Len(crossed)
        /\ \A row \in 1..Len(crossed) :
              /\ Len(offspring_mutation[row]) = NumParams
              /\ Cardinality(Changed(row)) <= 1
              /\ \E col \in 1..NumParams :
                    /\ offspring_mutation[row][col] \in
                           uniform(args.param_ranges[col])
                    /\ Changed(row) \subseteq {col}

(* C10, witness: mutation changed a gene of one row and drew, for another  *)
(* row, the value the gene had.                                            *)
C10_Witness ==
    /\ pc = "mutated"
    /\ \E row \in 1..Len(crossed) : Cardinality(Changed(row)) = 1
    /\ \E row \in 1..Len(crossed) : Changed(row) = {}

----------------------------------------------------------------------------
(* Further properties of geneticAlgoSolve (specification Spec).            *)

(* C11 as stated: the ranking is a stable sort: of two rows of equal       *)
(* fitness the one that was above the other before the sort is above it    *)
(* after the sort, and population and fitness are reordered by the same    *)
(* index array.                                                            *)
C11_StableRanking ==
    pc = "persist" =>
        /\ sinds \in Perms(NumSolutions)
        /\ \A i, j \in 1..NumSolutions :
              (i < j /\ fitness[i] = fitness[j]) => sinds[i] < sinds[j]

Inverted(param_ranges) ==
    \E c \in 1..Len(param_ranges) : param_ranges[c][1] > param_ranges[c][2]

(* C12 as stated: a call with num_parents >= num_solutions or with a range *)
(* whose low bound exceeds its high bound ends with a configuration error  *)
(* before any cycle: fitnessFun is never called and the file stays as it   *)
(* was.                                                                    *)
C12_BadShapeRejected ==
    (pc # "idle" /\ (NumParents >= NumSolutions \/ Inverted(args.param_ranges))) =>
        /\ pc \notin {"solve", "batch", "rank", "persist"}
        /\ generation = 0
        /\ calls = 0
        /\ disk = disk0
        /\ pc \in {"done", "returned", "raised"} => exc = "ConfigurationError"

(* C13 as stated: when the parents of a cycle are taken, the first cycle   *)
(* of a run without data included, the population is ranked by its         *)
(* fitness: no row below the parents has a strictly lower fitnessFun value *)
(* than a parent, so offspring never overwrite a better individual.        *)
C13_ParentsAreBest ==
    (pc = "loop" /\ generation < args.num_generations) =>
        \A p \in 1..NumParents : \A q \in (NumParents + 1)..NumSolutions :
            fitnessFun(population[p]) <= fitnessFun(population[q])

(* C14 as stated: whatever file is on disk is a complete snapshot of the   *)
(* end of a generation: the stored count is the number of stored record    *)
(* rows, and the last record row holds the stored row 0 and the stored     *)
(* fitness[0]; population and fitness of a generation are never on disk    *)
(* without the record row of that generation.                              *)
C14_CompleteSnapshot ==
    disk.kind = "book" =>
        /\ disk.recorded_generations = Len(disk.record)
        /\ Len(disk.record) >= 1
        /\ disk.record[Len(disk.record)] =
               NewRecord(Len(disk.record), disk.population, disk.fitness)

(* The rows (1-based) of a slice <<i1, i2>>. *)
BatchRows(b) == (b[1] + 1)..b[2]

(* C15: in a call of solver every batch has min(remaining, num_cpu) rows,  *)
(* so no more than num_cpu evaluations are in flight; a batch is started   *)
(* only when every row of the batches before it has been evaluated; the    *)
(* batches are pairwise disjoint and, when the loop ends, cover exactly    *)
(* the rows that had to be evaluated.                                      *)
C15_Batching ==
    pc \in {"solve", "batch"} =>
        /\ Cardinality(inflight) <= num_cpu
        /\ pc = "solve" => inflight = {}
        /\ \A k \in 1..Len(batches) :
              LET b == batches[k]
                  remaining == req_solutions - (NumSolutions - b[2])
              IN  /\ b[2] - b[1] = Min(remaining, num_cpu)
                  /\ b[2] - b[1] >= 1
                  /\ BatchRows(b) \subseteq (NumSolutions - req_solutions + 1)..NumSolutions
                  /\ \A m \in 1..(k - 1) : BatchRows(batches[m]) \cap BatchRows(b) = {}
                  /\ (k < Len(batches) \/ pc = "solve") =>
                        \A r \in BatchRows(b) : evals[r] = 1
                  /\ (k = Len(batches) /\ pc = "batch") =>
                        /\ inflight \subseteq BatchRows(b)
                        /\ \A r \in BatchRows(b) : evals[r] = (IF r \in inflight THEN 0 ELSE 1)
        /\ (pc = "solve" /\ comp_solutions >= req_solutions) =>
              UNION {BatchRows(batches[k]) : k \in 1..Len(batches)}
                  = (NumSolutions - req_solutions + 1)..NumSolutions

(* C15, witness: three rows had to be evaluated on two processors: a batch *)
(* of the last two rows, then a batch of the first row, and the loop of    *)
(* solver has ended.                                                       *)
C15_Witness ==
    /\ pc = "solve"
    /\ num_cpu = 2
    /\ req_solutions = 3
    /\ comp_solutions = 3
    /\ batches = <<<<1, 3>>, <<0, 1>>>>

----------------------------------------------------------------------------
(* Properties of crossover on long genomes (specification SpecWide).       *)

(* C16 as stated: for every num_params >= 1 crossover cuts at              *)
(* floor(num_params / 2): the offspring of a parent of zeros and a parent  *)
(* of ones has floor(num_params / 2) zeros followed by ones, also for the  *)
(* lengths whose half does not fit in 8 bits.                              *)
C16_PointIsHalf ==
    pc = "crossed" =>
        /\ crossover_point(NumParams) = NumParams \div 2
        /\ offspring_crossover[1] =
               [j \in 1..NumParams |-> IF j <= NumParams \div 2 THEN 0 ELSE 1]

----------------------------------------------------------------------------
(* Further properties of geneticAlgoSolve (specification Spec).            *)

(* C17: from the selection of the parents to the sort, no step of a cycle  *)
(* (crossover, mutation, splice, the batches of solver) changes the rows   *)
(* [0, num_parents) of the population, nor, when solver evaluates the      *)
(* offspring only, the entries [0, num_parents) of fitness; the shape of   *)
(* both stays.                                                             *)
C17_ParentsUntouched ==
    [][(pc \in {"loop", "solve", "batch"} /\ pc' \in {"solve", "batch", "rank"}) =>
          /\ Len(population') = Len(population)
          /\ Len(fitness') = Len(fitness)
          /\ SubSeq(population', 1, NumParents) = SubSeq(population, 1, NumParents)
          /\ ~no_data =>
                SubSeq(fitness', 1, NumParents) = SubSeq(fitness, 1, NumParents)]_vars

(* C17, witness: in a cycle of a resumed run solver has returned: parents  *)
(* and their fitness are those loaded, an offspring row differs from the   *)
(* row it replaced and its fitness has been computed.                      *)
C17_Witness ==
    /\ pc = "rank"
    /\ ~bootstrapped
    /\ generation = 0
    /\ NumParents < NumSolutions
    /\ SubSeq(population, 1, NumParents) = SubSeq(StoredPopulation(disk0), 1, NumParents)
    /\ SubSeq(fitness, 1, NumParents) = SubSeq(StoredFitness(disk0), 1, NumParents)
    /\ population[NumSolutions] # StoredPopulation(disk0)[NumSolutions]
    /\ fitness[NumSolutions] # StoredFitness(disk0)[NumSolutions]
    /\ evals[NumSolutions] = 1

(* The fitness a record row holds (its last cell). *)
Best(row) == row[Len(row)]

NonIncreasing(rec) ==
    \A i \in 1..(Len(rec) - 1) : Best(rec[i + 1]) <= Best(rec[i])

(* C18: the best fitness recorded never increases from one record row to   *)
(* the next, in the record of the running call (which starts with the rows *)
(* it loaded) and in the record saved in the file.                         *)
C18_BestNeverIncreases ==
    /\ NonIncreasing(GenerationRecord)
    /\ NonIncreasing(disk.record)

(* C18, witness: a resumed run has saved two generations after the one it  *)
(* loaded; its first row improved on the last row of the checkpoint, its   *)
(* second did not improve further.                                         *)
C18_Witness ==
    /\ pc = "loop"
    /\ ~bootstrapped
    /\ Len(record0) = 1
    /\ Len(disk.record) = 3
    /\ Best(disk.record[2]) < Best(disk.record[1])
    /\ Best(disk.record[3]) = Best(disk.record[2])

----------------------------------------------------------------------------
(* Termination of geneticAlgoSolve (specification SpecLive).               *)

Running == pc \in {"loop", "solve", "batch", "rank", "persist"}

(* C19: unless an evaluation (or mutation) raises, a call of solver ends   *)
(* after at most req_solutions batches and a call of geneticAlgoSolve      *)
(* returns after exactly num_generations cycles, its last step before the  *)
(* return being the save of the last cycle; with num_generations = 0 it    *)
(* runs no cycle, never calls fitnessFun and leaves the file as it was.    *)
C19_Terminates ==
    /\ (pc \in {"solve", "batch"}) ~> (pc = "rank" \/ pc = "raised")
    /\ Running ~> (pc = "done" \/ pc = "raised")
    /\ [](pc \in {"solve", "batch"} => Len(batches) <= req_solutions)
    /\ [](Running => generation <= args.num_generations)
    /\ [](pc = "done" =>
            /\ exc = "none"
            /\ generation = args.num_generations
            /\ disk = committed
            /\ generation >= 1 =>
                  /\ last_run.valid
                  /\ Len(last_run.record) = Len(record0) + generation
                  /\ disk.record = last_run.record
            /\ generation = 0 => (calls = 0 /\ disk = disk0))
    /\ []((pc = "loop" /\ args.num_generations = 0) =>
            /\ calls = 0
            /\ disk = disk0
            /\ GenerationRecord = record0
            /\ ~bootstrapped =>
                  /\ population = StoredPopulation(disk0)
                  /\ fitness = StoredFitness(disk0))

(* C19, witness: a call for three generations on two processors has        *)
(* returned after its third cycle, having evaluated every row in the first *)
(* and the offspring in the others.                                        *)
C19_Witness ==
    /\ pc = "done"
    /\ exc = "none"
    /\ bootstrapped
    /\ generation = 3
    /\ args.num_generations = 3
    /\ NumSolutions = 3
    /\ NumParents = 1
    /\ calls = 7
    /\ Len(disk.record) = 3

====
